---- MODULE Spec2Model ----
(***************************************************************************)
(* Model of educational-platform-backend.py: a FastAPI service whose       *)
(* async handlers work on three MongoDB collections (users, courses,       *)
(* progress).  Every `await db....` is a point where the event loop may    *)
(* run another request, so each handler is a sequence of steps, one per    *)
(* awaited database operation; the synchronous code between two awaits     *)
(* belongs to the step of the await that precedes it.                      *)
(***************************************************************************)
EXTENDS Integers, Sequences, FiniteSets, TLC

\* ---- bounds of the model ------------------------------------------------
NumProcs == 2        \* requests in flight at once
MaxReqs == 4         \* requests the service receives in one run

Procs == 1..NumProcs
\* Request inputs.  A QuizQuestion is kept by its question text and
\* correct_option_index (its options list is carried along unread by the code);
\* a Course's optional description is carried along unread too and left out.
Usernames == {"a", "b"}
Questions == {[question |-> "q1", correct_option_index |-> 0],
              [question |-> "q2", correct_option_index |-> 1]}
Titles == {"t"}
QuizIndexes == {0, 1}

\* A well-formed ObjectId no document ever gets, and a string that is no ObjectId.
UnknownOid == 0
InvalidOid == -1

VARIABLES users, courses, progress, nextId, nreq, pc, req, loc, resp,
          enrollReturned, quizReturned

vars == <<users, courses, progress, nextId, nreq, pc, req, loc, resp,
          enrollReturned, quizReturned>>
db == <<users, courses, progress>>

\* ---- helpers ------------------------------------------------------------
Range(s) == {s[i] : i \in DOMAIN s}

\* ObjectId.is_valid
IsValidOid(v) == v >= 0

\* find_one filters: the documents of a collection that match.  find_one has
\* no sort, so when several documents match, which one it returns is the
\* store's choice: the handlers below take any of them (\E).
UsersByName(name) == {u \in Range(users) : u.username = name}
UsersByNameRole(name, role) ==
    {u \in Range(users) : u.username = name /\ u.is_instructor = role}
CoursesById(oid) == {c \in Range(courses) : c._id = oid}
ProgressByPair(sid, cid) ==
    {g \in Range(progress) : g.student_id = sid /\ g.course_id = cid}
\* {"username": name, "is_instructor": True} and {..., "is_instructor": False}
\* (variant: the role is left out of the filter)
FindInstructor_AnyRole(name) == UsersByName(name)
FindInstructor(name) == UsersByNameRole(name, TRUE)
FindStudentByName(name) == UsersByNameRole(name, FALSE)

\* Course ids a client can send: those of stored courses, a well-formed id of
\* no course, and a malformed one.
CourseIdInputs == {c._id : c \in Range(courses)} \cup {UnknownOid, InvalidOid}

NoReq == [op |-> "none", username |-> "", is_instructor |-> FALSE, title |-> "",
          course_id |-> UnknownOid, quiz |-> <<>>, quiz_index |-> 0]
NoLoc == [oid |-> 0, prog_id |-> 0, quizzes_done |-> <<>>, seen |-> {}, wrote |-> FALSE]
NoResp == [status |-> 0, body |-> <<>>]

\* update operators of the store, applied to the document with the given _id
\* (variant: $set of a one-element list in place of $push)
PushQuiz_Overwrite(cs, oid, q) ==
    [i \in DOMAIN cs |->
        IF cs[i]._id = oid THEN [cs[i] EXCEPT !.quizzes = <<q>>] ELSE cs[i]]
PushQuiz(cs, oid, q) ==
    [i \in DOMAIN cs |->
        IF cs[i]._id = oid THEN [cs[i] EXCEPT !.quizzes = Append(@, q)] ELSE cs[i]]
\* (variant: the document read earlier is written back whole, flag included)
SetCompletedQuizzes_ReplaceDoc(ps, oid, list) ==
    [i \in DOMAIN ps |->
        IF ps[i]._id = oid
          THEN [ps[i] EXCEPT !.completed_quizzes = list, !.assignments_completed = FALSE]
          ELSE ps[i]]
SetCompletedQuizzes(ps, oid, list) ==
    [i \in DOMAIN ps |->
        IF ps[i]._id = oid THEN [ps[i] EXCEPT !.completed_quizzes = list] ELSE ps[i]]
SetAssignmentsCompleted(ps, oid) ==
    [i \in DOMAIN ps |->
        IF ps[i]._id = oid THEN [ps[i] EXCEPT !.assignments_completed = TRUE] ELSE ps[i]]

\* ---- initial state --------------------------------------------------------
Init ==
    /\ users = <<>>
    /\ courses = <<>>
    /\ progress = <<>>
    /\ nextId = 1
    /\ nreq = 0
    /\ pc = [p \in Procs |-> "idle"]
    /\ req = [p \in Procs |-> NoReq]
    /\ loc = [p \in Procs |-> NoLoc]
    /\ resp = [p \in Procs |-> NoResp]
    /\ enrollReturned = {}
    /\ quizReturned = {}

\* The handler of p ends: with an HTTPException (or an unhandled ValueError,
\* status 500) or with its return value.
Finish(p, status, body) ==
    /\ pc' = [pc EXCEPT ![p] = "done"]
    /\ resp' = [resp EXCEPT ![p] = [status |-> status, body |-> body]]
    /\ loc' = [loc EXCEPT ![p] = NoLoc]

Goto(p, label, l) ==
    /\ pc' = [pc EXCEPT ![p] = label]
    /\ loc' = [loc EXCEPT ![p] = l]
    /\ resp' = resp

\* A response is handed over as soon as its handler ends, before the event
\* loop resumes another handler.
NoneDone == \A q \in Procs : pc[q] # "done"

\* p's handler is suspended at the await called label and is resumed.
At(p, label) == pc[p] = label /\ NoneDone

\* A request arrives; the free workers are interchangeable, the first takes it.
Start(p, r) ==
    /\ At(p, "idle")
    /\ \A q \in Procs : q < p => pc[q] # "idle"
    /\ nreq < MaxReqs
    /\ nreq' = nreq + 1
    /\ req' = [req EXCEPT ![p] = r]

\* ---- create_user ----------------------------------------------------------
create_user_find(p) ==
    /\ \E name \in Usernames, role \in BOOLEAN :
          Start(p, [NoReq EXCEPT !.op = "create_user", !.username = name,
                                 !.is_instructor = role])
    /\ IF UsersByName(req'[p].username) # {}
         THEN Finish(p, 400, <<>>)
         ELSE Goto(p, "create_user_insert", NoLoc)
    /\ UNCHANGED <<users, courses, progress, nextId, enrollReturned, quizReturned>>

create_user_insert(p) ==
    /\ At(p, "create_user_insert")
    /\ LET user_doc == [_id |-> nextId, username |-> req[p].username,
                        is_instructor |-> req[p].is_instructor]
       IN /\ users' = Append(users, user_doc)
          /\ Finish(p, 200, <<user_doc>>)
    /\ nextId' = nextId + 1
    /\ UNCHANGED <<nreq, courses, progress, req, enrollReturned, quizReturned>>

\* ---- create_course --------------------------------------------------------
create_course_find(p) ==
    /\ \E name \in Usernames, t \in Titles :
          Start(p, [NoReq EXCEPT !.op = "create_course", !.username = name, !.title = t])
    /\ LET found == FindInstructor(req'[p].username)
       IN IF found = {}
            THEN Finish(p, 403, <<>>)
            ELSE \E instructor \in found :
                    Goto(p, "create_course_insert", [NoLoc EXCEPT !.oid = instructor._id])
    /\ UNCHANGED <<users, courses, progress, nextId, enrollReturned, quizReturned>>

create_course_insert(p) ==
    /\ At(p, "create_course_insert")
    /\ LET course_doc == [_id |-> nextId, title |-> req[p].title, instructor_id |-> loc[p].oid,
                          quizzes |-> <<>>]
       IN /\ courses' = Append(courses, course_doc)
          /\ Finish(p, 200, <<course_doc>>)
    /\ nextId' = nextId + 1
    /\ UNCHANGED <<nreq, users, progress, req, enrollReturned, quizReturned>>

\* ---- add_quiz -------------------------------------------------------------
add_quiz_find(p) ==
    /\ \E cid \in CourseIdInputs, q \in Questions :
          Start(p, [NoReq EXCEPT !.op = "add_quiz", !.course_id = cid, !.quiz = q])
    /\ IF ~IsValidOid(req'[p].course_id)
         THEN Finish(p, 500, <<>>)
         ELSE IF CoursesById(req'[p].course_id) = {}
                THEN Finish(p, 404, <<>>)
                ELSE Goto(p, "add_quiz_update", NoLoc)
    /\ UNCHANGED <<users, courses, progress, nextId, enrollReturned, quizReturned>>

add_quiz_update(p) ==
    /\ At(p, "add_quiz_update")
    /\ courses' = PushQuiz(courses, req[p].course_id, req[p].quiz)
    /\ Goto(p, "add_quiz_refetch", [NoLoc EXCEPT !.wrote = TRUE])
    /\ UNCHANGED <<nreq, users, progress, nextId, req, enrollReturned, quizReturned>>

add_quiz_refetch(p) ==
    /\ At(p, "add_quiz_refetch")
    /\ \E updated \in CoursesById(req[p].course_id) : Finish(p, 200, <<updated>>)
    /\ UNCHANGED <<nreq, users, courses, progress, nextId, req, enrollReturned, quizReturned>>

\* ---- list_courses ---------------------------------------------------------
list_courses(p) ==
    /\ Start(p, [NoReq EXCEPT !.op = "list_courses"])
    /\ Finish(p, 200, courses)
    /\ UNCHANGED <<users, courses, progress, nextId, enrollReturned, quizReturned>>

\* history: the ids of the Progress records that finished enroll_student requests
\* returned for a (student, course) pair
ReturnedFor(sid, cid) == {k[3] : k \in {e \in enrollReturned : e[1] = sid /\ e[2] = cid}}

\* ---- the student lookup that opens the four progress handlers -------------
\* find_one({"username": ..., "is_instructor": False}), then the validation of
\* course_id, which runs before the next await.
FindStudent(p, label) ==
    LET found == FindStudentByName(req'[p].username)
    IN IF found = {}
         THEN Finish(p, 404, <<>>)
         ELSE IF ~IsValidOid(req'[p].course_id)
                THEN Finish(p, 500, <<>>)
                ELSE \E student \in found :
                        Goto(p, label, [NoLoc EXCEPT !.oid = student._id,
                                                     !.seen = IF req'[p].op = "enroll_student"
                                                                THEN ReturnedFor(student._id, req'[p].course_id)
                                                                ELSE {}])

\* ---- enroll_student -------------------------------------------------------
\* history: the Progress a finished enroll_student returned, by its pair
EnrollKey(prog) == <<prog.student_id, prog.course_id, prog._id>>

enroll_student_find_student(p) ==
    /\ \E name \in Usernames, cid \in CourseIdInputs :
          Start(p, [NoReq EXCEPT !.op = "enroll_student", !.username = name,
                                 !.course_id = cid])
    /\ FindStudent(p, "enroll_student_find")
    /\ UNCHANGED <<users, courses, progress, nextId, enrollReturned, quizReturned>>

enroll_student_find(p) ==
    /\ At(p, "enroll_student_find")
    /\ LET found == ProgressByPair(loc[p].oid, req[p].course_id)
       IN IF found # {}
            THEN \E prog \in found :
                    /\ Finish(p, 200, <<prog>>)
                    /\ enrollReturned' = enrollReturned \cup {EnrollKey(prog)}
            ELSE /\ Goto(p, "enroll_student_insert", loc[p])
                 /\ UNCHANGED enrollReturned
    /\ UNCHANGED <<nreq, users, courses, progress, nextId, req, quizReturned>>

enroll_student_insert(p) ==
    /\ At(p, "enroll_student_insert")
    /\ LET prog_doc == [_id |-> nextId, student_id |-> loc[p].oid,
                        course_id |-> req[p].course_id, completed_quizzes |-> <<>>,
                        assignments_completed |-> FALSE]
       IN /\ progress' = Append(progress, prog_doc)
          /\ Finish(p, 200, <<prog_doc>>)
          /\ enrollReturned' = enrollReturned \cup {EnrollKey(prog_doc)}
    /\ nextId' = nextId + 1
    /\ UNCHANGED <<nreq, users, courses, req, quizReturned>>

\* ---- get_progress ---------------------------------------------------------
get_progress_find_student(p) ==
    /\ \E name \in Usernames, cid \in CourseIdInputs :
          Start(p, [NoReq EXCEPT !.op = "get_progress", !.username = name,
                                 !.course_id = cid])
    /\ FindStudent(p, "get_progress_find")
    /\ UNCHANGED <<users, courses, progress, nextId, enrollReturned, quizReturned>>

\* (variant: get-or-create, as enroll_student does)
get_progress_find_Upsert(p) ==
    /\ At(p, "get_progress_find")
    /\ LET found == ProgressByPair(loc[p].oid, req[p].course_id)
           prog_doc == [_id |-> nextId, student_id |-> loc[p].oid,
                        course_id |-> req[p].course_id, completed_quizzes |-> <<>>,
                        assignments_completed |-> FALSE]
       IN IF found = {}
            THEN /\ progress' = Append(progress, prog_doc)
                 /\ nextId' = nextId + 1
                 /\ Finish(p, 200, <<prog_doc>>)
            ELSE /\ UNCHANGED <<progress, nextId>>
                 /\ \E prog \in found : Finish(p, 200, <<prog>>)
    /\ UNCHANGED <<nreq, users, courses, req, enrollReturned, quizReturned>>

get_progress_find(p) ==
    /\ At(p, "get_progress_find")
    /\ LET found == ProgressByPair(loc[p].oid, req[p].course_id)
       IN IF found = {}
            THEN Finish(p, 404, <<>>)
            ELSE \E prog \in found : Finish(p, 200, <<prog>>)
    /\ UNCHANGED <<nreq, users, courses, progress, nextId, req, enrollReturned, quizReturned>>

\* ---- complete_quiz --------------------------------------------------------
complete_quiz_find_student(p) ==
    /\ \E name \in Usernames, cid \in CourseIdInputs, i \in QuizIndexes :
          Start(p, [NoReq EXCEPT !.op = "complete_quiz", !.username = name,
                                 !.course_id = cid, !.quiz_index = i])
    /\ FindStudent(p, "complete_quiz_find")
    /\ UNCHANGED <<users, courses, progress, nextId, enrollReturned, quizReturned>>

\* quizzes_done after lines 180-182, and whether update_one is called
QuizzesDone(list, i) == IF i \in Range(list) THEN list ELSE Append(list, i)
NeedsUpdate(list, i) == i \notin Range(list)

complete_quiz_find(p) ==
    /\ At(p, "complete_quiz_find")
    /\ LET found == ProgressByPair(loc[p].oid, req[p].course_id)
       IN IF found = {}
            THEN Finish(p, 404, <<>>) /\ UNCHANGED quizReturned
            ELSE \E prog \in found :
                    IF NeedsUpdate(prog.completed_quizzes, req[p].quiz_index)
                      THEN /\ Goto(p, "complete_quiz_update",
                                   [loc[p] EXCEPT !.prog_id = prog._id,
                                       !.quizzes_done = QuizzesDone(prog.completed_quizzes,
                                                                    req[p].quiz_index)])
                           /\ UNCHANGED quizReturned
                      ELSE /\ Finish(p, 200, <<>>)
                           /\ quizReturned' = quizReturned \cup {<<prog._id, req[p].quiz_index>>}
    /\ UNCHANGED <<nreq, users, courses, progress, nextId, req, enrollReturned>>

complete_quiz_update(p) ==
    /\ At(p, "complete_quiz_update")
    /\ progress' = SetCompletedQuizzes(progress, loc[p].prog_id, loc[p].quizzes_done)
    /\ Finish(p, 200, <<>>)
    /\ quizReturned' = quizReturned \cup {<<loc[p].prog_id, req[p].quiz_index>>}
    /\ UNCHANGED <<nreq, users, courses, nextId, req, enrollReturned>>

\* ---- complete_assignment --------------------------------------------------
complete_assignment_find_student(p) ==
    /\ \E name \in Usernames, cid \in CourseIdInputs :
          Start(p, [NoReq EXCEPT !.op = "complete_assignment", !.username = name,
                                 !.course_id = cid])
    /\ FindStudent(p, "complete_assignment_find")
    /\ UNCHANGED <<users, courses, progress, nextId, enrollReturned, quizReturned>>

complete_assignment_find(p) ==
    /\ At(p, "complete_assignment_find")
    /\ LET found == ProgressByPair(loc[p].oid, req[p].course_id)
       IN IF found = {}
            THEN Finish(p, 404, <<>>)
            ELSE \E prog \in found :
                    Goto(p, "complete_assignment_update", [loc[p] EXCEPT !.prog_id = prog._id])
    /\ UNCHANGED <<nreq, users, courses, progress, nextId, req, enrollReturned, quizReturned>>

complete_assignment_update(p) ==
    /\ At(p, "complete_assignment_update")
    /\ progress' = SetAssignmentsCompleted(progress, loc[p].prog_id)
    /\ Finish(p, 200, <<>>)
    /\ UNCHANGED <<nreq, users, courses, nextId, req, enrollReturned, quizReturned>>

\* The response is delivered and the worker takes the next request.
Respond(p) ==
    /\ pc[p] = "done"
    /\ pc' = [pc EXCEPT ![p] = "idle"]
    /\ resp' = [resp EXCEPT ![p] = NoResp]
    /\ req' = [req EXCEPT ![p] = NoReq]
    /\ UNCHANGED <<nreq, users, courses, progress, nextId, loc, enrollReturned, quizReturned>>

\* ==== properties ===========================================================
IsPrefix(s, t) == Len(s) <= Len(t) /\ \A i \in DOMAIN s : s[i] = t[i]
NoDuplicates(s) == \A i, j \in DOMAIN s : s[i] = s[j] => i = j
\* p's handler ends in this step
Ends(p) == pc[p] # "done" /\ pc'[p] = "done"
\* p's request arrives in this step
Arrives(p, op) == pc[p] = "idle" /\ pc'[p] # "idle" /\ req'[p].op = op

\* C1: no two User records have the same username, in any reachable state.
C1_UniqueUsernames ==
    \A i, j \in DOMAIN users : users[i].username = users[j].username => i = j

\* C2: at most one Progress record for each (student_id, course_id) pair, in
\* any reachable state.
C2_OneProgressPerPair ==
    \A i, j \in DOMAIN progress :
        (progress[i].student_id = progress[j].student_id
            /\ progress[i].course_id = progress[j].course_id) => i = j

C3_Step(p) ==
    /\ (pc[p] \in {"enroll_student_find", "enroll_student_insert"}
            /\ ProgressByPair(loc[p].oid, req[p].course_id) # {}
            /\ pc'[p] # pc[p])
        => /\ progress' = progress
           /\ Ends(p)
           /\ resp'[p].status = 200
           /\ resp'[p].body[1] \in ProgressByPair(loc[p].oid, req[p].course_id)
    /\ (pc[p] \in {"enroll_student_find", "enroll_student_insert"} /\ Ends(p))
        => \A id \in loc[p].seen : resp'[p].body[1]._id = id
\* C3: enroll_student is idempotent: while a Progress record exists for the pair
\* it inserts and modifies nothing and returns a stored record of that pair, and
\* the identifier it returns is the one every enroll_student for the pair that
\* had returned before this request started returned.
C3_EnrollIdempotent == [][\A p \in Procs : C3_Step(p)]_vars

C4_Step(p) ==
    /\ (pc[p] = "complete_quiz_find" /\ Ends(p)) => progress' = progress
    /\ (pc[p] = "complete_quiz_update" /\ Ends(p))
        => /\ DOMAIN progress' = DOMAIN progress
           /\ \A k \in DOMAIN progress :
                IF progress[k]._id = loc[p].prog_id
                    /\ req[p].quiz_index \notin Range(progress[k].completed_quizzes)
                  THEN progress'[k] =
                         [progress[k] EXCEPT !.completed_quizzes = Append(@, req[p].quiz_index)]
                  ELSE progress'[k] = progress[k]
C4_NoDuplicateIndex == \A g \in Range(progress) : NoDuplicates(g.completed_quizzes)
\* C4: complete_quiz is an idempotent add: with an index the record holds it
\* leaves the record unchanged, with an absent index it adds exactly that index
\* and keeps every index the record holds, and completed_quizzes never holds an
\* index twice.
C4_CompleteQuizIdempotentAdd ==
    []C4_NoDuplicateIndex /\ [][\A p \in Procs : C4_Step(p)]_vars

C5_Owner ==
    \A c \in Range(courses) :
        \E u \in Range(users) : u._id = c.instructor_id /\ u.is_instructor
C5_Step(p) ==
    (Arrives(p, "create_course")
        /\ ~\E u \in Range(users) : u.username = req'[p].username /\ u.is_instructor)
        => Ends(p) /\ resp'[p].status = 403 /\ courses' = courses
\* C5: create_course with an instructor_username that resolves to no User with
\* is_instructor = TRUE ends with status 403 and inserts no Course, and the
\* instructor_id of every Course is the _id of a User whose is_instructor is TRUE.
C5_OnlyInstructorsOwnCourses ==
    []C5_Owner /\ [][(\A p \in Procs : C5_Step(p))
                      /\ (Len(courses') # Len(courses) =>
                            \E p \in Procs : pc[p] = "create_course_insert" /\ Ends(p)
                                              /\ resp'[p].status = 200)]_vars
C5_Witness ==
    /\ courses # <<>>
    /\ \E p \in Procs :
          /\ pc[p] = "done" /\ req[p].op = "create_course" /\ resp[p].status = 403
          /\ \E u \in Range(users) : u.username = req[p].username /\ ~u.is_instructor

C6_Student ==
    \A g \in Range(progress) :
        \E u \in Range(users) : u._id = g.student_id /\ ~u.is_instructor
C6_Step(p) ==
    (/\ \E op \in {"enroll_student", "complete_quiz", "complete_assignment"} : Arrives(p, op)
     /\ \/ UsersByName(req'[p].username) = {}
        \/ \E u \in UsersByName(req'[p].username) : u.is_instructor)
        => Ends(p) /\ resp'[p].status = 404 /\ progress' = progress
\* C6: the student_id of every Progress record is the _id of a User whose
\* is_instructor is FALSE, and enroll_student, complete_quiz and
\* complete_assignment with a username that is unknown or belongs to an
\* instructor end with status 404 and leave the progress collection unchanged.
C6_OnlyStudentsHaveProgress ==
    []C6_Student /\ [][\A p \in Procs : C6_Step(p)]_vars

C7_Step(p) ==
    /\ (pc[p] = "add_quiz_update" /\ pc'[p] # pc[p])
        => /\ DOMAIN courses' = DOMAIN courses
           /\ \A k \in DOMAIN courses :
                IF courses[k]._id = req[p].course_id
                  THEN courses'[k] = [courses[k] EXCEPT !.quizzes = Append(@, req[p].quiz)]
                  ELSE courses'[k] = courses[k]
           /\ \E k \in DOMAIN courses : courses[k]._id = req[p].course_id
    /\ (Arrives(p, "add_quiz") /\ IsValidOid(req'[p].course_id)
            /\ \A c \in Range(courses) : c._id # req'[p].course_id)
        => Ends(p) /\ resp'[p].status = 404 /\ courses' = courses
    /\ (pc[p] = "add_quiz_refetch" /\ Ends(p))
        => /\ resp'[p].status = 200
           /\ req[p].quiz \in Range(resp'[p].body[1].quizzes)
C7_KeepsQuestions ==
    \A k \in DOMAIN courses :
        k \in DOMAIN courses' /\ IsPrefix(courses[k].quizzes, courses'[k].quizzes)
C8_Step(p) ==
    (pc[p] = "complete_assignment_update" /\ pc'[p] # pc[p])
        => /\ DOMAIN progress' = DOMAIN progress
           /\ \A k \in DOMAIN progress :
                IF progress[k]._id = loc[p].prog_id
                  THEN progress'[k] = [progress[k] EXCEPT !.assignments_completed = TRUE]
                  ELSE progress'[k] = progress[k]
           /\ \E k \in DOMAIN progress' :
                progress'[k]._id = loc[p].prog_id /\ progress'[k].assignments_completed
           /\ Ends(p) /\ resp'[p].status = 200
C8_FlagStays ==
    \A k \in DOMAIN progress :
        progress[k].assignments_completed
            => k \in DOMAIN progress' /\ progress'[k]._id = progress[k]._id
                 /\ progress'[k].assignments_completed
\* C8: complete_assignment sets assignments_completed of its record to TRUE and
\* changes nothing else; repeated, it leaves the record unchanged; and a flag
\* that is TRUE stays TRUE in every later state, whatever else runs.
C8_AssignmentFlagMonotone == [][C8_FlagStays /\ \A p \in Procs : C8_Step(p)]_vars
C8_Witness ==
    \E g \in Range(progress) :
        /\ g.assignments_completed
        /\ g.completed_quizzes # <<>>
        /\ \E p \in Procs :
              pc[p] = "done" /\ req[p].op = "complete_quiz" /\ resp[p].status = 200

ErrorStatuses(op) ==
    CASE op = "create_user" -> {400}
      [] op = "create_course" -> {403}
      [] op = "add_quiz" -> {404, 500}
      [] op \in {"enroll_student", "get_progress", "complete_quiz", "complete_assignment"}
            -> {404, 500}
      [] OTHER -> {}
C9_Step(p) ==
    /\ (Ends(p) /\ resp'[p].status # 200)
        => /\ db' = db
           /\ ~loc[p].wrote
           /\ resp'[p].status \in ErrorStatuses(req'[p].op)
           /\ resp'[p].status = 400
                => \E u \in Range(users) : u.username = req'[p].username
           /\ resp'[p].status = 403
                => ~\E u \in Range(users) : u.username = req'[p].username /\ u.is_instructor
           /\ (resp'[p].status = 404 /\ req'[p].op = "add_quiz")
                => \A c \in Range(courses) : c._id # req'[p].course_id
           /\ (resp'[p].status = 404 /\ req'[p].op # "add_quiz")
                => \/ ~\E u \in Range(users) : u.username = req'[p].username /\ ~u.is_instructor
                   \/ /\ req'[p].op # "enroll_student"
                      /\ ~\E g \in Range(progress) :
                            /\ g.course_id = req'[p].course_id
                            /\ g.student_id = loc[p].oid
    /\ (pc'[p] # pc[p] /\ req'[p].op \in {"get_progress", "list_courses"}) => db' = db
C10_CompletedNeverLost ==
    \A e \in quizReturned :
        \A g \in Range(progress) : g._id = e[1] => e[2] \in Range(g.completed_quizzes)

Next ==
    \E p \in Procs :
        \/ create_user_find(p)
        \/ create_user_insert(p)
        \/ create_course_find(p)
        \/ create_course_insert(p)
        \/ add_quiz_find(p)
        \/ add_quiz_update(p)
        \/ add_quiz_refetch(p)
        \/ list_courses(p)
        \/ enroll_student_find_student(p)
        \/ enroll_student_find(p)
        \/ enroll_student_insert(p)
        \/ get_progress_find_student(p)
        \/ get_progress_find(p)
        \/ complete_quiz_find_student(p)
        \/ complete_quiz_find(p)
        \/ complete_quiz_update(p)
        \/ complete_assignment_find_student(p)
        \/ complete_assignment_find(p)
        \/ complete_assignment_update(p)
        \/ Respond(p)

Spec == Init /\ [][Next]_vars
====
